---- MODULE Spec2Model ----
(***************************************************************************)
(* Model of package monochromeoled (SSD1306 OLED driver).                  *)
(* The OLED object (w, h, buf), the I2C device it writes to, and one       *)
(* action per exported operation.  A Go slice index k is position k+1 of   *)
(* the TLA+ sequence that models the slice.                                *)
(***************************************************************************)
EXTENDS Integers, Sequences, FiniteSets, TLC

\* ---- program constants -------------------------------------------------
ssd1306_LCDWIDTH == 128
ssd1306_LCDHEIGHT == 64
ssd1306_DISPLAY_ON == 175
ssd1306_DISPLAY_OFF == 174
FrameMarker == 64

\* ---- bounds and input samples ------------------------------------------
MaxImg == 2

Heights == {-8, 0, 8, 33, 63, 64}
\* SetPixel coordinates: first byte, last byte, last page, both bounds
\* exceeded, and negative coordinates
PixelXY == { <<0, 7>>, <<127, 63>>, <<127, 62>>, <<128, 0>>, <<0, 64>>,
             <<-1, 0>>, <<-2, 0>>, <<0, -1>> }
VS == {0, 1, 2}
\* SetImage origins: clipped at the right edge, clipped at the bottom edge,
\* and past the right / bottom edge
ImageXY == { <<126, 63>>, <<127, 62>>, <<128, 62>>, <<126, 64>> }
ImgKinds == {"white", "black", "dim"}

\* images whose bounds start at (0,0), of every size and kind, and one
\* sub-image whose bounds start at (1,1)
Images ==
  { [minX |-> 0, minY |-> 0, dx |-> dx, dy |-> dy, kind |-> kd] :
      dx \in 0..MaxImg, dy \in 0..MaxImg, kd \in ImgKinds }
  \cup { [minX |-> 1, minY |-> 1, dx |-> MaxImg, dy |-> MaxImg, kind |-> "white"] }
NoImg == [minX |-> 0, minY |-> 0, dx |-> 0, dy |-> 0, kind |-> "black"]

VARIABLES st, conn, w, h, buf, writes, last
vars == <<st, conn, w, h, buf, writes, last>>

\* ---- Go arithmetic -----------------------------------------------------
\* integer division truncating toward zero
GoDiv(a, b) == IF a >= 0 THEN a \div b ELSE -((-a) \div b)
\* two's complement a & 7
And7(a) == a % 8
Pow2(k) == CASE k = 0 -> 1 [] k = 1 -> 2 [] k = 2 -> 4 [] k = 3 -> 8
             [] k = 4 -> 16 [] k = 5 -> 32 [] k = 6 -> 64 [] k = 7 -> 128
Bit(b, k) == (b \div Pow2(k)) % 2
\* b | (1 << k) on a byte
OrBit(b, k) == IF Bit(b, k) = 1 THEN b ELSE b + Pow2(k)
\* b & ^(1 << k) on a byte
AndNotBit(b, k) == IF Bit(b, k) = 1 THEN b - Pow2(k) ELSE b

\* ---- protocol byte sequences -------------------------------------------
\* initSeq without the deactivate-scroll command
initSeq_NoScrollOff ==
  << 174, 0, 16, 213, 64, 168, ssd1306_LCDHEIGHT - 1, 211, 0, 64, 141, 20,
     32, 0, 161, 200, 218, 18, 129, 207, 157, 241, 219, 64, 164, 166,
     175 >>

initSeq ==
  << 174, 0, 16, 213, 64, 168, ssd1306_LCDHEIGHT - 1, 211, 0, 64, 141, 20,
     32, 0, 161, 200, 218, 18, 129, 207, 157, 241, 219, 64, 164, 166,
     46, 175 >>

drawCmd == << 164, 64, 33, 0, ssd1306_LCDWIDTH, 34, 0, 7 >>

\* one dev.Write call as seen by the transport
WriteRec(data, ok) == [data |-> data, ok |-> ok]

\* ---- pure parts of the operations --------------------------------------
\* make([]byte, n) followed by buf[0] = 0x40
NewBuf(n) == [k \in 1..n |-> IF k = 1 THEN FrameMarker ELSE 0]

SetPixelCall(b, ow, oh, x, y, v) ==
  IF x >= ow \/ y >= oh THEN [buf |-> b, err |-> "bounds"]
  ELSE IF v > 1 THEN [buf |-> b, err |-> "value"]
  ELSE LET i == 1 + x + GoDiv(y, 8) * ow
       IN IF i < 0 \/ i >= Len(b) THEN [buf |-> b, err |-> "panic"]
          ELSE IF v = 0
               THEN [buf |-> [b EXCEPT ![i + 1] = AndNotBit(@, And7(y))], err |-> "nil"]
               ELSE [buf |-> [b EXCEPT ![i + 1] = OrBit(@, And7(y))], err |-> "nil"]

\* img.At(px, py).RGBA() without the alpha channel
ImgAt(img, px, py) ==
  IF /\ px >= img.minX /\ px < img.minX + img.dx
     /\ py >= img.minY /\ py < img.minY + img.dy
  THEN CASE img.kind = "white" -> <<65535, 65535, 65535>>
         [] img.kind = "black" -> <<0, 0, 0>>
         [] img.kind = "dim" -> IF (px + py) % 2 = 0 THEN <<0, 0, 1>> ELSE <<0, 0, 0>>
  ELSE <<0, 0, 0>>

\* r+g+b > 0 on uint32 channels, each at most 65535, so the sum cannot wrap
Lit(c) == IF c[1] + c[2] + c[3] > 0 THEN 1 ELSE 0

RECURSIVE SetImageLoop(_, _, _, _, _, _, _, _, _, _, _)
SetImageLoop(b, ow, oh, img, y, endX, endY, i, j, imgI, imgY) ==
  IF i >= endX THEN [buf |-> b, err |-> "nil"]
  ELSE IF j >= endY
       THEN SetImageLoop(b, ow, oh, img, y, endX, endY, i + 1, y, imgI + 1, 0)
       ELSE LET r == SetPixelCall(b, ow, oh, i, j, Lit(ImgAt(img, imgI, imgY)))
            IN IF r.err # "nil" THEN r
               ELSE SetImageLoop(r.buf, ow, oh, img, y, endX, endY, i, j + 1, imgI, imgY + 1)

SetImageCall(b, ow, oh, x, y, img) ==
  LET endX == IF x + img.dx >= ow THEN ow ELSE x + img.dx
      endY == IF y + img.dy >= oh THEN oh ELSE y + img.dy
  IN SetImageLoop(b, ow, oh, img, y, endX, endY, x, y, 0, 0)

\* Draw that ignores the result of the framing write
DrawCall_IgnoreFramingErr(b, ok1, ok2) ==
  [writes |-> <<WriteRec(drawCmd, ok1), WriteRec(b, ok2)>>,
   err |-> IF ok2 THEN "nil" ELSE "transport"]

DrawCall(b, ok1, ok2) ==
  IF ~ok1
  THEN [writes |-> <<WriteRec(drawCmd, FALSE)>>, err |-> "transport"]
  ELSE [writes |-> <<WriteRec(drawCmd, TRUE), WriteRec(b, ok2)>>,
        err |-> IF ok2 THEN "nil" ELSE "transport"]

\* Clear whose loop starts at index 0
ClearBuf_FromZero(b) == [k \in 1..Len(b) |-> 0]

ClearBuf(b) == [k \in 1..Len(b) |-> IF k = 1 THEN b[k] ELSE 0]

\* ---- state machine -----------------------------------------------------
Rec(op, x, y, v, img, err) ==
  [op |-> op, x |-> x, y |-> y, v |-> v, img |-> img, err |-> err]

Init ==
  /\ st = "unopened"
  /\ conn = "none"
  /\ w = 0
  /\ h = 0
  /\ buf = <<>>
  /\ writes = <<>>
  /\ last = Rec("none", 0, 0, 0, NoImg, "nil")

Open ==
  /\ st = "unopened"
  /\ conn = "none"
  /\ \E okOpen \in BOOLEAN, okInit \in BOOLEAN :
       IF ~okOpen
       THEN /\ last' = Rec("Open", 0, 0, 0, NoImg, "transport")
            /\ writes' = <<>>
            /\ UNCHANGED <<st, conn, w, h, buf>>
       ELSE IF ~okInit
       THEN /\ last' = Rec("Open", 0, 0, 0, NoImg, "transport")
            /\ writes' = <<WriteRec(initSeq, FALSE)>>
            /\ conn' = "open"
            /\ UNCHANGED <<st, w, h, buf>>
       ELSE /\ last' = Rec("Open", 0, 0, 0, NoImg, "nil")
            /\ writes' = <<WriteRec(initSeq, TRUE)>>
            /\ conn' = "open"
            /\ st' = "open"
            /\ w' = ssd1306_LCDWIDTH
            /\ h' = ssd1306_LCDHEIGHT
            /\ buf' = NewBuf(ssd1306_LCDWIDTH * GoDiv(ssd1306_LCDHEIGHT, 8) + 1)

OpenWithI2c ==
  /\ st = "unopened"
  /\ conn = "none"
  /\ \E height \in Heights :
       LET n == ssd1306_LCDWIDTH * GoDiv(height, 8) + 1
       IN /\ conn' = "open"
          /\ writes' = <<>>
          /\ IF n < 0
             THEN /\ last' = Rec("OpenWithI2c", 0, height, 0, NoImg, "panic")
                  /\ UNCHANGED <<st, w, h, buf>>
             ELSE /\ last' = Rec("OpenWithI2c", 0, height, 0, NoImg, "nil")
                  /\ st' = "open"
                  /\ w' = ssd1306_LCDWIDTH
                  /\ h' = height
                  /\ buf' = NewBuf(n)

On ==
  /\ st = "open"
  /\ \E ok \in BOOLEAN :
       /\ writes' = <<WriteRec(<<ssd1306_DISPLAY_ON>>, ok)>>
       /\ last' = Rec("On", 0, 0, 0, NoImg, IF ok THEN "nil" ELSE "transport")
  /\ UNCHANGED <<st, conn, w, h, buf>>

Off ==
  /\ st = "open"
  /\ \E ok \in BOOLEAN :
       /\ writes' = <<WriteRec(<<ssd1306_DISPLAY_OFF>>, ok)>>
       /\ last' = Rec("Off", 0, 0, 0, NoImg, IF ok THEN "nil" ELSE "transport")
  /\ UNCHANGED <<st, conn, w, h, buf>>

Clear ==
  /\ st = "open"
  /\ \E ok1 \in BOOLEAN, ok2 \in BOOLEAN :
       LET d == DrawCall(ClearBuf(buf), ok1, ok2)
       IN /\ buf' = ClearBuf(buf)
          /\ writes' = d.writes
          /\ last' = Rec("Clear", 0, 0, 0, NoImg, d.err)
  /\ UNCHANGED <<st, conn, w, h>>

SetPixel ==
  /\ st = "open"
  /\ \E xy \in PixelXY, v \in VS :
       LET r == SetPixelCall(buf, w, h, xy[1], xy[2], v)
       IN /\ buf' = r.buf
          /\ last' = Rec("SetPixel", xy[1], xy[2], v, NoImg, r.err)
  /\ writes' = <<>>
  /\ UNCHANGED <<st, conn, w, h>>

SetImage ==
  /\ st = "open"
  /\ \E xy \in ImageXY, img \in Images :
       LET r == SetImageCall(buf, w, h, xy[1], xy[2], img)
       IN /\ buf' = r.buf
          /\ last' = Rec("SetImage", xy[1], xy[2], 0, img, r.err)
  /\ writes' = <<>>
  /\ UNCHANGED <<st, conn, w, h>>

Draw ==
  /\ st = "open"
  /\ \E ok1 \in BOOLEAN, ok2 \in BOOLEAN :
       LET d == DrawCall(buf, ok1, ok2)
       IN /\ writes' = d.writes
          /\ last' = Rec("Draw", 0, 0, 0, NoImg, d.err)
  /\ UNCHANGED <<st, conn, w, h, buf>>

Close ==
  /\ st = "open"
  /\ \E ok \in BOOLEAN :
       last' = Rec("Close", 0, 0, 0, NoImg, IF ok THEN "nil" ELSE "transport")
  /\ st' = "closed"
  /\ conn' = "closed"
  /\ writes' = <<>>
  /\ UNCHANGED <<w, h, buf>>

Next ==
  \/ Open
  \/ OpenWithI2c
  \/ On
  \/ Off
  \/ Clear
  \/ SetPixel
  \/ SetImage
  \/ Draw
  \/ Close

Spec == Init /\ [][Next]_vars

TypeOK ==
  /\ st \in {"unopened", "open", "closed"}
  /\ conn \in {"none", "open", "closed"}
  /\ \A k \in DOMAIN buf : buf[k] \in 0..255

\* ---- properties ---------------------------------------------------------

\* C1: every SetPixel(x, y, v) with 0 <= x < width, 0 <= y < height and
\* v in {0,1} returns no error, sets bit (y mod 8) of byte
\* 1 + x + (y/8)*width to v, changes no other bit, and writes nothing to
\* the bus.
C1_SetPixelInBounds ==
  [][ ( /\ last'.op = "SetPixel"
        /\ 0 <= last'.x /\ last'.x < w
        /\ 0 <= last'.y /\ last'.y < h
        /\ last'.v \in {0, 1} )
      => /\ last'.err = "nil"
         /\ writes' = <<>>
         /\ LET k == 1 + last'.x + (last'.y \div 8) * w
                bit == last'.y % 8
            IN /\ k + 1 \in DOMAIN buf
               /\ buf' = [buf EXCEPT ![k + 1] =
                            @ - Bit(@, bit) * Pow2(bit) + last'.v * Pow2(bit)] ]_vars

\* C2: every SetPixel whose coordinate is out of bounds (x >= width,
\* y >= height, x < 0 or y < 0) fails with the out-of-bounds error and
\* leaves the buffer unchanged.
C2_SetPixelOutOfBounds ==
  [][ ( /\ last'.op = "SetPixel"
        /\ (last'.x >= w \/ last'.y >= h \/ last'.x < 0 \/ last'.y < 0) )
      => /\ last'.err = "bounds"
         /\ buf' = buf ]_vars

\* C3: whenever a controller exists, its buffer has length
\* 1 + width * (height / 8) and byte 0 is the marker 0x40.
C3_BufferFraming ==
  st = "open" =>
    /\ Len(buf) = 1 + w * (h \div 8)
    /\ buf[1] = 64

\* C4: Draw first writes the framing sequence, then, only if that write
\* succeeded, the whole buffer as the next single write; it returns an
\* error exactly when one of the writes failed; the buffer is unchanged.
C4_DrawProtocol ==
  [][ last'.op = "Draw"
      => /\ buf' = buf
         /\ Len(writes') \in {1, 2}
         /\ writes'[1].data = drawCmd
         /\ (Len(writes') = 2 <=> writes'[1].ok)
         /\ (Len(writes') = 2 => writes'[2].data = buf)
         /\ (last'.err # "nil" <=> \E k \in DOMAIN writes' : ~writes'[k].ok) ]_vars

C4_Witness ==
  /\ last.op = "Draw"
  /\ last.err = "nil"
  /\ Len(writes) = 2
  /\ writes[2].ok
  /\ writes[2].data = buf
  /\ Len(buf) = 1025
  /\ buf[2] = 128

\* C5: the framing sequence written before every full-buffer write is
\* 0xA4, 0x40, 0x21, 0, width-1, 0x22, 0, 7.
C5_FramingBytes ==
  (last.op \in {"Draw", "Clear"}) =>
    writes[1].data = << 164, 64, 33, 0, w - 1, 34, 0, 7 >>

\* C6 (as claimed): after a successful Open the only write received is the
\* initialization sequence, one write of exactly 26 bytes starting with
\* 0xAE, ending with 0xAF, with multiplex ratio height-1 = 63 and contrast
\* 0xCF.
C6_InitSeq26 ==
  (last.op = "Open" /\ last.err = "nil") =>
    /\ Len(writes) = 1
    /\ writes[1].ok
    /\ LET d == writes[1].data
       IN /\ Len(d) = 26
          /\ d[1] = 174
          /\ d[Len(d)] = 175
          /\ \E k \in 1..(Len(d) - 1) : d[k] = 168 /\ d[k + 1] = h - 1 /\ h = 64
          /\ \E k \in 1..(Len(d) - 1) : d[k] = 129 /\ d[k + 1] = 207

\* C6 (amended): after a successful Open the only write received is the
\* initialization sequence, one write of exactly 28 bytes starting with
\* 0xAE, ending with 0xAF, with multiplex ratio height-1 = 63 and contrast
\* 0xCF.
C6_InitSeq28 ==
  (last.op = "Open" /\ last.err = "nil") =>
    /\ Len(writes) = 1
    /\ writes[1].ok
    /\ LET d == writes[1].data
       IN /\ Len(d) = 28
          /\ d = << 174, 0, 16, 213, 64, 168, 63, 211, 0, 64, 141, 20, 32, 0,
                    161, 200, 218, 18, 129, 207, 157, 241, 219, 64, 164, 166,
                    46, 175 >>
          /\ d[6] = 168 /\ d[7] = h - 1 /\ h = 64
          /\ d[19] = 129 /\ d[20] = 207

C6_Witness ==
  /\ last.op = "Open"
  /\ last.err = "nil"
  /\ st = "open"
  /\ Len(writes) = 1
  /\ Len(writes[1].data) = 28

\* C7: every SetImage(x, y, img) with x >= 0 and y >= 0 returns no error,
\* turns each destination pixel (x+dx, y+dy) inside the display on iff the
\* source pixel (dx, dy) has r+g+b > 0, and changes no bit outside the
\* clipped rectangle (so it is a no-op when x >= width or y >= height).
C7_SetImageClipped ==
  [][ (last'.op = "SetImage" /\ last'.x >= 0 /\ last'.y >= 0)
      => /\ last'.err = "nil"
         /\ Len(buf') = Len(buf)
         /\ buf'[1] = buf[1]
         /\ \A k \in 2..Len(buf), bit \in 0..7 :
              LET px == (k - 2) % w
                  py == ((k - 2) \div w) * 8 + bit
                  inRect == /\ last'.x <= px /\ px < last'.x + last'.img.dx
                            /\ last'.y <= py /\ py < last'.y + last'.img.dy
                            /\ px < w /\ py < h
              IN Bit(buf'[k], bit) =
                   IF inRect
                   THEN Lit(ImgAt(last'.img, px - last'.x, py - last'.y))
                   ELSE Bit(buf[k], bit) ]_vars

\* C8: Clear zeroes every pixel byte, leaves byte 0 as it was, and then
\* performs one flush of the cleared buffer, returning the flush's result.
C8_ClearThenFlush ==
  [][ last'.op = "Clear"
      => /\ Len(buf') = Len(buf)
         /\ buf'[1] = buf[1]
         /\ \A k \in 2..Len(buf') : buf'[k] = 0
         /\ Len(writes') \in {1, 2}
         /\ writes'[1].data = drawCmd
         /\ (Len(writes') = 2 <=> writes'[1].ok)
         /\ (Len(writes') = 2 => writes'[2].data = buf')
         /\ (last'.err # "nil" <=> \E k \in DOMAIN writes' : ~writes'[k].ok) ]_vars

C8_Witness ==
  /\ last.op = "Clear"
  /\ last.err = "nil"
  /\ Len(writes) = 2
  /\ writes[2].ok
  /\ Len(buf) = 1025
  /\ \A k \in 2..Len(buf) : buf[k] = 0
  /\ writes[2].data = buf

\* C9: OpenWithI2c fails whenever the height is not a positive multiple of
\* 8, so every controller has a height that is a positive multiple of 8.
C9_HeightValidated ==
  /\ (st = "open" => (h > 0 /\ h % 8 = 0))
  /\ (last.op = "OpenWithI2c" /\ ~(last.y > 0 /\ last.y % 8 = 0))
       => (last.err \notin {"nil", "panic"} /\ st = "unopened")

\* C10: a failed Open returns no controller and leaves no connection open.
C10_OpenFailureReleases ==
  (last.op = "Open" /\ last.err # "nil") =>
    /\ st = "unopened"
    /\ conn # "open"
====
